---- MODULE Spec2Model ----
(***************************************************************************)
(* GeminiAPI (src/client/src/api/gemini-api.js): the client-side session   *)
(* connection manager.  One manager object, the WebSocket transports it    *)
(* creates, the frames the server sends on them, and the caller's calls of *)
(* the public operations.                                                  *)
(***************************************************************************)
EXTENDS Integers, Sequences, FiniteSets, TLC

\* ------------------------------------------------------------- bounds
MaxTransports == 2      \* transports (connect attempts) created in one run
MaxInflight == 1        \* blob frames being decoded at the same time
MaxEnsure == 1          \* ensureConnected() calls that install listeners
MaxReady == 1           \* ensureReady() calls

\* ---------------------------------------------------- program constants
NULL == 0               \* this.ws = null, this._readyPromise = null
CONNECTING == 0
OPEN == 1
CLOSING == 2
CLOSED == 3

\* the table of sendMessage, lines 203-208
states == [s \in 0..3 |->
             CASE s = 0 -> "CONNECTING"
               [] s = 1 -> "OPEN"
               [] s = 2 -> "CLOSING"
               [] s = 3 -> "CLOSED"]

\* the nine single-slot handlers of the constructor
Handlers == {"onReady", "onAudioData", "onTextContent", "onError",
             "onTurnComplete", "onFunctionCall", "onFunctionResponse",
             "onInterrupted", "onConnect"}

\* ------------------------------------------------------- inbound frames
\* A frame's payload as it is on the wire: text that JSON.parse accepts
\* (json) and then the envelope's fields, or text it rejects.  The code
\* reads response.type (against seven literals), the truthiness of
\* response.ready, and passes response.data on.
InboundTypes == {"error", "interrupted", "audio", "text", "turn_complete",
                 "function_call", "function_response"}

Envelope(type, ready) == [json |-> TRUE, type |-> type, ready |-> ready,
                          data |-> "hello"]

Handshake == [json |-> TRUE, type |-> "absent", ready |-> TRUE, data |-> "absent"]

Malformed == [json |-> FALSE, type |-> "absent", ready |-> FALSE, data |-> "absent"]

\* every tagged envelope, one with a tag the code does not know, the
\* handshake, a tagged envelope that also carries ready (one tested before
\* the ready test and one after it), and text that is not JSON
Payloads == {Envelope(ty, FALSE) : ty \in InboundTypes \cup {"bogus"}}
            \cup {Handshake, Envelope("error", TRUE), Envelope("audio", TRUE),
                  Malformed}

\* the payloads the server also sends as binary frames.  The Blob path
\* (68-71) only delays the same parse and dispatch, so one payload stands
\* for each way a delayed run can meet the state: one that reads and
\* writes the readiness fields, one that writes isSpeaking, one that only
\* calls a handler, and one that does not parse
BlobPayloads == {Handshake, Envelope("interrupted", FALSE),
                 Envelope("text", FALSE), Malformed}

NoFrame == [json |-> FALSE, type |-> "absent", ready |-> FALSE, data |-> "none",
            t |-> 0]

\* the frame a message event carries: its payload and the transport it
\* arrived on
Frame(p, t) ==
    [json |-> p.json, type |-> p.type, ready |-> p.ready, data |-> p.data,
     t |-> t]

VARIABLES
    ws,            \* this.ws: NULL or the id of the current transport
    readyPromise,  \* this._readyPromise: NULL or a promise id
    resolveReady,  \* this._resolveReady: NULL or the promise its function resolves
    isSpeaking,    \* this.isSpeaking
    transports,    \* the WebSocket objects created so far: readyState, ...
    promises,      \* per readiness promise: how often its resolve function ran
    inflight,      \* the onmessage runs suspended at await event.data.text(),
                   \* in the order their frames arrived
    ensure,        \* the ensureConnected() calls that installed listeners
    waiting,       \* the ensureReady() calls: where each is suspended, on which promise
    last,          \* what the most recent step did (handler calls, transmissions)
    step,          \* scripted server: how many frames of Script it has sent
    trace          \* scripted server: every handler call so far, in order

vars == <<ws, readyPromise, resolveReady, isSpeaking, transports, promises,
          inflight, ensure, waiting, last, step, trace>>

\* the manager's own state and the transports
core == <<ws, readyPromise, resolveReady, isSpeaking, transports, promises,
          inflight, ensure>>

Call(h, a) == [h |-> h, arg |-> a]

\* op: the operation or event; t: its transport; frame: the frame it
\* processed; calls: the handler calls it made, in order; sent: what it
\* transmitted; ret: the promise it returned; created: it created a
\* transport (connect) or installed listeners (ensureConnected); threw: an
\* exception left it; pre: readyState of this.ws when it began (4: no
\* transport); late: the frame it dispatched had been overtaken by a frame
\* that arrived after it; resolved: the promise whose resolve function it
\* ran; clean: wasClean of its close event; afterBad: the step before it
\* dispatched, on the same transport, a frame that did not parse; thrown:
\* what threw into the catch block of ws.onmessage
Idle == [op |-> "init", t |-> 0, frame |-> NoFrame, calls |-> <<>>,
         sent |-> <<>>, ret |-> 0, created |-> FALSE, threw |-> FALSE, pre |-> 4,
         late |-> FALSE, resolved |-> 0, clean |-> FALSE, afterBad |-> FALSE,
         thrown |-> "none"]

Init ==
    /\ ws = NULL
    /\ readyPromise = NULL
    /\ resolveReady = NULL
    /\ isSpeaking = FALSE
    /\ transports = <<>>
    /\ promises = <<>>
    /\ inflight = <<>>
    /\ ensure = <<>>
    /\ waiting = <<>>
    /\ last = Idle
    /\ step = 0
    /\ trace = <<>>

\* ------------------------------------------------------------ helpers
\* a new WebSocket: readyState; wasOpen: its open event has fired;
\* future: the promise the connect() that created it returned
Transport == [state |-> CONNECTING, wasOpen |-> FALSE, future |-> 0]

\* which caller-supplied handler throws when it is invoked in this step:
\* none, or one of those the step can invoke
Throwers(calls) == {"none", "onError"} \cup {calls[i].h : i \in DOMAIN calls}

\* what one run of ws.onmessage did: the handler calls in order; resolve:
\* it ran this._resolveReady; clear: it assigned isSpeaking = false;
\* thrown: what threw into its catch block ("parse", a handler, or "none");
\* escaped: an exception left the run (onError threw inside the catch block)
Result(calls, resolve, clear, thrown, escaped) ==
    [calls |-> calls, resolve |-> resolve, clear |-> clear, thrown |-> thrown,
     escaped |-> escaped]

\* ------------------------------------------------- ws.onmessage, 65-127
\* mutant: the catch block swallows the exception
Catch_Silent(done, resolve, clear, thr) ==
    Result(done, resolve, clear,
           IF done = <<>> THEN "parse" ELSE done[Len(done)].h, FALSE)

\* catch (error): this.onError({..., error_type: 'client_error'})
Catch(done, resolve, clear, thr) ==
    Result(Append(done, Call("onError", "client_error")), resolve, clear,
           IF done = <<>> THEN "parse" ELSE done[Len(done)].h,
           thr = "onError")

\* a branch whose only statement left is one handler call
Invoke(h, a, clear, thr) ==
    IF thr = h
    THEN Catch(<<Call(h, a)>>, FALSE, clear, thr)
    ELSE Result(<<Call(h, a)>>, FALSE, clear, "none", FALSE)

\* if (response.type === 'error') { this.onError(response.data); return; }
ErrorBranch(f, thr) == Invoke("onError", f.data, FALSE, thr)

\* mutant: the promise is resolved before onReady is called
ReadyBranch_ResolvesFirst(rr, thr) ==
    IF thr = "onReady"
    THEN Catch(<<Call("onReady", "none")>>, rr # NULL, FALSE, thr)
    ELSE IF thr = "onConnect"
    THEN Catch(<<Call("onReady", "none"), Call("onConnect", "none")>>,
               rr # NULL, FALSE, thr)
    ELSE Result(<<Call("onReady", "none"), Call("onConnect", "none")>>,
                rr # NULL, FALSE, "none", FALSE)

\* if (response.ready) { onReady(); resolve once; onConnect(); return; }
ReadyBranch(rr, thr) ==
    IF thr = "onReady"
    THEN Catch(<<Call("onReady", "none")>>, FALSE, FALSE, thr)
    ELSE IF thr = "onConnect"
    THEN Catch(<<Call("onReady", "none"), Call("onConnect", "none")>>,
               rr # NULL, FALSE, thr)
    ELSE Result(<<Call("onReady", "none"), Call("onConnect", "none")>>,
                rr # NULL, FALSE, "none", FALSE)

\* the if / else-if chain on response.type
TypeBranch(f, thr) ==
    CASE f.type = "interrupted" -> Invoke("onInterrupted", f.data, TRUE, thr)
      [] f.type = "audio" -> Invoke("onAudioData", f.data, FALSE, thr)
      [] f.type = "text" -> Invoke("onTextContent", f.data, FALSE, thr)
      [] f.type = "turn_complete" -> Invoke("onTurnComplete", "none", FALSE, thr)
      [] f.type = "function_call" -> Invoke("onFunctionCall", f.data, FALSE, thr)
      [] f.type = "function_response" ->
             Invoke("onFunctionResponse", f.data, FALSE, thr)
      [] OTHER -> Result(<<>>, FALSE, FALSE, "none", FALSE)

\* mutant: the ready branch has no return and goes on to the chain on type
OnMessage_ReadyFallsThrough(f, rr, thr) ==
    IF ~f.json THEN Catch(<<>>, FALSE, FALSE, thr)
    ELSE IF f.type = "error" THEN ErrorBranch(f, thr)
    ELSE IF f.ready
    THEN [ReadyBranch(rr, thr) EXCEPT
             !.calls = @ \o TypeBranch(f, thr).calls]
    ELSE TypeBranch(f, thr)

\* mutant: the ready field is tested before the error tag
OnMessage_ReadyBeforeError(f, rr, thr) ==
    IF ~f.json THEN Catch(<<>>, FALSE, FALSE, thr)
    ELSE IF f.ready THEN ReadyBranch(rr, thr)
    ELSE IF f.type = "error" THEN ErrorBranch(f, thr)
    ELSE TypeBranch(f, thr)

\* the handler body after the frame's text is at hand: rr is
\* this._resolveReady when it runs
OnMessage(f, rr, thr) ==
    IF ~f.json THEN Catch(<<>>, FALSE, FALSE, thr)
    ELSE IF f.type = "error" THEN ErrorBranch(f, thr)
    ELSE IF f.ready THEN ReadyBranch(rr, thr)
    ELSE TypeBranch(f, thr)

\* ws.onopen, 59-63: logs only
OnOpen == [resolve |-> FALSE, calls |-> <<>>]

\* ws.onerror, 129-136
OnErrorEvent == <<Call("onError", "websocket_error")>>

\* mutant: the close handler reports every closure
OnClose_ReportsEveryClosure(wasClean) ==
    <<Call("onError", "connection_closed")>>

\* ws.onclose, 138-153
OnClose(wasClean) ==
    IF ~wasClean THEN <<Call("onError", "connection_closed")>> ELSE <<>>

\* the suspended runs a dispatch with handler calls overtakes: those of the
\* frames that arrived before f on f's transport (the first k of the queue)
Overtake(q, k, f, calls) ==
    [i \in DOMAIN q |->
        IF i <= k /\ q[i].f.t = f.t /\ calls # <<>>
        THEN [q[i] EXCEPT !.overtaken = TRUE] ELSE q[i]]

Remove(q, i) == [j \in 1..(Len(q) - 1) |-> IF j < i THEN q[j] ELSE q[j + 1]]

\* the state after OnMessage ran for frame f
Deliver(f, late, thr) ==
    LET r == OnMessage(f, resolveReady, thr) IN
    /\ isSpeaking' = IF r.clear THEN FALSE ELSE isSpeaking
    /\ resolveReady' = IF r.resolve THEN NULL ELSE resolveReady
    /\ promises' = IF r.resolve
                   THEN [promises EXCEPT ![resolveReady] = @ + 1]
                   ELSE promises
    /\ last' = [Idle EXCEPT !.op = "dispatch", !.t = f.t, !.frame = f,
                            !.calls = r.calls, !.threw = r.escaped,
                            !.thrown = r.thrown,
                            !.afterBad = (last.op = "dispatch" /\ last.t = f.t
                                          /\ ~last.frame.json),
                            !.late = late /\ r.calls # <<>>,
                            !.resolved = IF r.resolve THEN resolveReady ELSE 0]

\* ------------------------------------------------------ connect, 39-56
\* busy: the guard of line 41 holds; op: the public operation that runs
\* connect(), which is connect() itself or ensureReady()
ConnectAs(op, busy) ==
    IF busy
    THEN /\ last' = [Idle EXCEPT !.op = op, !.t = ws, !.ret = readyPromise,
                                 !.pre = transports[ws].state]
         /\ UNCHANGED core
    ELSE /\ Len(transports) < MaxTransports
         /\ LET t == Len(transports) + 1
                p == Len(promises) + 1 IN
            /\ ws' = t
            /\ transports' = Append(transports, [Transport EXCEPT !.future = p])
            /\ promises' = Append(promises, 0)
            /\ readyPromise' = p
            /\ resolveReady' = p
            /\ last' = [Idle EXCEPT !.op = op, !.t = t, !.ret = p,
                                    !.created = TRUE,
                                    !.pre = IF ws = NULL THEN 4
                                            ELSE transports[ws].state]
         /\ UNCHANGED <<isSpeaking, inflight, ensure>>

ConnectIf(busy) == ConnectAs("connect", busy)

\* mutant: the guard takes only a CONNECTING transport for a live one
Connect_OnlyConnectingIsBusy ==
    ConnectIf(ws # NULL /\ transports[ws].state < 1)

\* if (this.ws && this.ws.readyState < 2): CONNECTING or OPEN
Connect == ConnectIf(ws # NULL /\ transports[ws].state < 2)

\* ------------------------------------------- ensureConnected, 224-256
\* const onOpen = () => { clearTimeout; remove both from this.ws; resolve }
OnOpenListener(c, cur) ==
    [c EXCEPT !.timer = FALSE,
              !.onOpen = IF cur = c.t THEN FALSE ELSE @,
              !.onError = IF cur = c.t THEN FALSE ELSE @,
              !.settled = IF @ = "pending" THEN "resolved" ELSE @]

\* const onError = (error) => { clearTimeout; remove both from this.ws; reject }
OnErrorListener(c, cur) ==
    [c EXCEPT !.timer = FALSE,
              !.onOpen = IF cur = c.t THEN FALSE ELSE @,
              !.onError = IF cur = c.t THEN FALSE ELSE @,
              !.settled = IF @ = "pending" THEN "error" ELSE @]

\* mutant: the timer's callback resolves
OnTimeout_Resolves(c) ==
    [c EXCEPT !.timer = FALSE,
              !.settled = IF @ = "pending" THEN "resolved" ELSE @]

\* setTimeout(() => { reject(new Error('Connection timeout')) }, 5000)
OnTimeout(c) ==
    [c EXCEPT !.timer = FALSE,
              !.settled = IF @ = "pending" THEN "timeout" ELSE @]

EnsureConnected ==
    IF ws = NULL
    THEN \* this.ws.readyState on null: the async function's promise rejects
         /\ last' = [Idle EXCEPT !.op = "ensureConnected", !.threw = TRUE]
         /\ UNCHANGED core
    ELSE IF transports[ws].state = OPEN
    THEN /\ last' = [Idle EXCEPT !.op = "ensureConnected", !.t = ws,
                                 !.pre = OPEN]
         /\ UNCHANGED core
    ELSE /\ Len(ensure) < MaxEnsure
         /\ ensure' = Append(ensure, [t |-> ws, onOpen |-> TRUE, onError |-> TRUE,
                                      timer |-> TRUE, settled |-> "pending"])
         /\ last' = [Idle EXCEPT !.op = "ensureConnected", !.t = ws,
                                 !.created = TRUE, !.pre = transports[ws].state]
         /\ UNCHANGED <<ws, readyPromise, resolveReady, isSpeaking, transports,
                        promises, inflight>>

\* the 5000 ms timer of an ensureConnected() call fires
Timeout ==
    \E i \in DOMAIN ensure :
        /\ ensure[i].timer
        /\ ensure' = [ensure EXCEPT ![i] = OnTimeout(@)]
        /\ last' = [Idle EXCEPT !.op = "timeout", !.t = ensure[i].t]
        /\ UNCHANGED <<ws, readyPromise, resolveReady, isSpeaking, transports,
                       promises, inflight>>

\* ------------------------------------------------ transport events
\* the open event of transport t: ws.onopen, then the open listeners
Open ==
    \E t \in DOMAIN transports :
        /\ transports[t].state = CONNECTING
        /\ transports' = [transports EXCEPT ![t].state = OPEN, ![t].wasOpen = TRUE]
        /\ ensure' = [i \in DOMAIN ensure |->
                        IF ensure[i].t = t /\ ensure[i].onOpen
                        THEN OnOpenListener(ensure[i], ws) ELSE ensure[i]]
        /\ resolveReady' = IF OnOpen.resolve THEN NULL ELSE resolveReady
        /\ promises' = IF OnOpen.resolve /\ resolveReady # NULL
                       THEN [promises EXCEPT ![resolveReady] = @ + 1]
                       ELSE promises
        /\ last' = [Idle EXCEPT !.op = "open", !.t = t, !.calls = OnOpen.calls,
                                !.resolved = IF OnOpen.resolve THEN resolveReady
                                             ELSE 0]
        /\ UNCHANGED <<ws, readyPromise, isSpeaking, inflight>>

\* a message event with payload p on transport t (delivered only while t is
\* OPEN): a string is parsed and dispatched in the same step, a Blob
\* suspends the handler at await event.data.text()
ReceiveP(p, mayThrow) ==
    \E t \in DOMAIN transports, blob \in BOOLEAN :
      \E thr \in IF mayThrow
                 THEN Throwers(OnMessage(Frame(p, t), resolveReady, "none").calls)
                 ELSE {"none"} :
        /\ transports[t].state = OPEN
        /\ LET f == Frame(p, t) IN
            IF blob
            THEN /\ p \in BlobPayloads
                 /\ Len(inflight) < MaxInflight
                 /\ thr = "none"
                 /\ inflight' = Append(inflight, [f |-> f, overtaken |-> FALSE])
                 /\ last' = [Idle EXCEPT !.op = "suspend", !.t = t, !.frame = f]
                 /\ UNCHANGED <<ws, readyPromise, resolveReady, isSpeaking,
                                transports, promises, ensure>>
            ELSE /\ Deliver(f, FALSE, thr)
                 /\ inflight' = Overtake(inflight, Len(inflight), f,
                                         OnMessage(f, resolveReady, thr).calls)
                 /\ UNCHANGED <<ws, readyPromise, transports, ensure>>

\* the server sends any payload; the caller's handlers may throw
Receive == \E p \in Payloads : ReceiveP(p, TRUE)

\* event.data.text() of a suspended run settles and the handler goes on,
\* whatever has happened to the transport meanwhile; the reads of different
\* Blobs finish in no fixed order
DecodedP(mayThrow) ==
    \E i \in DOMAIN inflight :
      \E thr \in IF mayThrow
                 THEN Throwers(OnMessage(inflight[i].f, resolveReady, "none").calls)
                 ELSE {"none"} :
        LET f == inflight[i].f IN
        /\ Deliver(f, inflight[i].overtaken, thr)
        /\ inflight' = Remove(Overtake(inflight, i - 1, f,
                                       OnMessage(f, resolveReady, thr).calls), i)
        /\ UNCHANGED <<ws, readyPromise, transports, ensure>>

Decoded == DecodedP(TRUE)

\* the closing handshake of transport t starts (ws.close() by the caller,
\* or the server's close frame): readyState becomes CLOSING
Closing ==
    \E t \in DOMAIN transports :
        /\ transports[t].state \in {CONNECTING, OPEN}
        /\ transports' = [transports EXCEPT ![t].state = CLOSING]
        /\ last' = [Idle EXCEPT !.op = "closing", !.t = t]
        /\ UNCHANGED <<ws, readyPromise, resolveReady, isSpeaking, promises,
                       inflight, ensure>>

\* transport t is closed: readyState CLOSED, the error event when the
\* connection failed (ws.onerror, then the error listeners), then ws.onclose
Closed ==
    \E t \in DOMAIN transports, wasClean \in BOOLEAN :
        /\ transports[t].state # CLOSED
        /\ wasClean => transports[t].wasOpen
        /\ transports' = [transports EXCEPT ![t].state = CLOSED]
        /\ ensure' = [i \in DOMAIN ensure |->
                        IF ~wasClean /\ ensure[i].t = t /\ ensure[i].onError
                        THEN OnErrorListener(ensure[i], ws) ELSE ensure[i]]
        /\ last' = [Idle EXCEPT !.op = "close", !.t = t, !.clean = wasClean,
                       !.calls = (IF wasClean THEN <<>> ELSE OnErrorEvent)
                                 \o OnClose(wasClean)]
        /\ UNCHANGED <<ws, readyPromise, resolveReady, isSpeaking, promises,
                       inflight>>

\* ------------------------------------------------------ sends, 156-212
\* mutant: the guard lets a CONNECTING transport through
SendMessage_SendsWhileConnecting(message, w, tr, thr) ==
    IF w = NULL
    THEN [sent |-> <<>>, calls |-> <<>>, threw |-> TRUE]
    ELSE IF tr[w].state <= OPEN
    THEN [sent |-> <<message>>, calls |-> <<>>, threw |-> FALSE]
    ELSE [sent |-> <<>>, calls |-> <<Call("onError", states[tr[w].state])>>,
          threw |-> (thr = "onError")]

\* mutant: an open transport is not enough, the handshake must be over
SendMessage_GatedOnReadiness(message, w, tr, thr) ==
    IF w = NULL
    THEN [sent |-> <<>>, calls |-> <<>>, threw |-> TRUE]
    ELSE IF tr[w].state = OPEN /\ resolveReady = NULL
    THEN [sent |-> <<message>>, calls |-> <<>>, threw |-> FALSE]
    ELSE [sent |-> <<>>, calls |-> <<Call("onError", states[tr[w].state])>>,
          threw |-> (thr = "onError")]

\* sendMessage(message), on this.ws = w and the transports tr
SendMessage(message, w, tr, thr) ==
    IF w = NULL
    THEN [sent |-> <<>>, calls |-> <<>>, threw |-> TRUE]
    ELSE IF tr[w].state = OPEN
    THEN [sent |-> <<message>>, calls |-> <<>>, threw |-> FALSE]
    ELSE [sent |-> <<>>, calls |-> <<Call("onError", states[tr[w].state])>>,
          threw |-> (thr = "onError")]

sendAudioChunk(w, tr, thr) ==
    SendMessage([type |-> "audio", data |-> "hello"], w, tr, thr)

sendImage(w, tr, thr) ==
    SendMessage([type |-> "image", data |-> "hello"], w, tr, thr)

sendEndMessage(w, tr, thr) ==
    SendMessage([type |-> "end", data |-> "absent"], w, tr, thr)

sendTextMessage(w, tr, thr) ==
    SendMessage([type |-> "text", data |-> "hello"], w, tr, thr)

sendSetupMessage(w, tr, thr) ==
    SendMessage([type |-> "setup", data |-> "hello"], w, tr, thr)

Wrapper(name, w, tr, thr) ==
    CASE name = "sendAudioChunk" -> sendAudioChunk(w, tr, thr)
      [] name = "sendImage" -> sendImage(w, tr, thr)
      [] name = "sendEndMessage" -> sendEndMessage(w, tr, thr)
      [] name = "sendTextMessage" -> sendTextMessage(w, tr, thr)
      [] name = "sendSetupMessage" -> sendSetupMessage(w, tr, thr)

Send ==
    \E name \in {"sendAudioChunk", "sendImage", "sendEndMessage",
                 "sendTextMessage", "sendSetupMessage"},
       thr \in {"none", "onError"} :
        LET r == Wrapper(name, ws, transports, thr) IN
        /\ last' = [Idle EXCEPT !.op = name, !.t = ws, !.calls = r.calls,
                       !.sent = r.sent, !.threw = r.threw,
                       !.pre = IF ws = NULL THEN 4 ELSE transports[ws].state]
        /\ UNCHANGED core

\* ----------------------------------------------- ensureReady, 215-222
\* stale: the condition of line 216 holds.  A call that runs connect() is
\* then suspended at await this.connect() (217), on the promise connect()
\* returned; the others go on to await this._readyPromise (220).  first is
\* this._readyPromise as it is after the call's first step
EnsureReadyIf(stale) ==
    /\ Len(waiting) < MaxReady
    /\ IF stale
       THEN /\ ConnectAs("ensureReady", ws # NULL /\ transports[ws].state < 2)
            /\ waiting' = Append(waiting, [pc |-> "awaitConnect",
                                           p |-> readyPromise',
                                           first |-> readyPromise'])
       ELSE /\ last' = [Idle EXCEPT !.op = "ensureReady", !.t = ws,
                                    !.ret = readyPromise,
                                    !.pre = IF ws = NULL THEN 4
                                            ELSE transports[ws].state]
            /\ waiting' = Append(waiting, [pc |-> "awaitReady",
                                           p |-> readyPromise,
                                           first |-> readyPromise])
            /\ UNCHANGED core

\* mutant: the condition takes only a CLOSED transport for a stale one
EnsureReady_OnlyClosedIsStale ==
    EnsureReadyIf(ws = NULL \/ transports[ws].state >= 3)

\* if (!this.ws || this.ws.readyState >= 2): none, CLOSING or CLOSED
EnsureReady == EnsureReadyIf(ws = NULL \/ transports[ws].state >= 2)

\* the promise a suspended ensureReady() awaits has been resolved and the
\* call goes on: from line 217 to the await of line 220, which reads
\* this._readyPromise then; from line 220 to its return.  (await on null
\* goes on at once)
Resume ==
    \E i \in DOMAIN waiting :
        /\ waiting[i].pc # "done"
        /\ waiting[i].p = NULL \/ promises[waiting[i].p] >= 1
        /\ waiting' = [waiting EXCEPT ![i] =
                          IF @.pc = "awaitConnect"
                          THEN [@ EXCEPT !.pc = "awaitReady", !.p = readyPromise]
                          ELSE [@ EXCEPT !.pc = "done"]]
        /\ last' = [Idle EXCEPT !.op = "resume"]
        /\ UNCHANGED core

\* ------------------------------------------------------ specifications
\* no scripted server and no ensureReady() call: step, trace and waiting
\* stay as they are
Free == UNCHANGED <<step, trace, waiting>>

\* the session: the manager, its transports, a server that sends any
\* frames, and a caller that connects and whose handlers may throw
Next ==
    \/ Connect /\ Free
    \/ Open /\ Free
    \/ Receive /\ Free
    \/ Decoded /\ Free
    \/ Closing /\ Free
    \/ Closed /\ Free

Spec == Init /\ [][Next]_vars

\* the caller's side of the connection: connect(), the transports'
\* events, the sends and ensureConnected(), which read this.ws.readyState
\* and touch no field the frames' dispatch reads or writes
NextConnection ==
    \/ Connect /\ Free
    \/ Open /\ Free
    \/ Closing /\ Free
    \/ Closed /\ Free
    \/ Send /\ Free
    \/ EnsureConnected /\ Free
    \/ Timeout /\ Free

SpecConnection == Init /\ [][NextConnection]_vars

\* the caller assigns the public field isSpeaking (the constructor's
\* this.isSpeaking is an ordinary property; the manager itself never
\* assigns true to it)
SetIsSpeaking ==
    /\ isSpeaking' = ~isSpeaking
    /\ last' = [Idle EXCEPT !.op = "setIsSpeaking"]
    /\ UNCHANGED <<ws, readyPromise, resolveReady, transports, promises,
                   inflight, ensure>>

\* one connection, a server that sends any frames, and a caller that also
\* assigns isSpeaking
NextCaller ==
    \/ /\ ws = NULL
       /\ Connect /\ Free
    \/ Open /\ Free
    \/ Receive /\ Free
    \/ Decoded /\ Free
    \/ SetIsSpeaking /\ Free

SpecCaller == Init /\ [][NextCaller]_vars

\* the scripted server of the spec's first scenario: on one connection it
\* sends the handshake, a text envelope and turn_complete, in this order,
\* each as a string or (where BlobPayloads has it) as a Blob; the handlers
\* are the constructor's no-ops
Script == <<Handshake, Envelope("text", FALSE), Envelope("turn_complete", FALSE)>>

Traced == trace' = trace \o last'.calls

NextScript ==
    \/ /\ ws = NULL
       /\ Connect /\ Free
    \/ Open /\ Free
    \/ /\ step < Len(Script)
       /\ ReceiveP(Script[step + 1], FALSE)
       /\ step' = step + 1
       /\ Traced
       /\ UNCHANGED waiting
    \/ /\ DecodedP(FALSE)
       /\ step' = step
       /\ Traced
       /\ UNCHANGED waiting
    \/ Send /\ Free
    \/ Closing /\ Free
    \/ Closed /\ Free

SpecScript == Init /\ [][NextScript]_vars

\* the payloads that matter to a caller who waits for readiness: the
\* handshake, an error envelope that carries ready, and one other envelope
ReadyPayloads == {Handshake, Envelope("error", TRUE), Envelope("text", FALSE)}

\* the callers who wait: ensureReady() and ensureConnected() calls, the
\* transports' events and a server that sends ReadyPayloads
NextReady ==
    \/ Connect /\ Free
    \/ Open /\ Free
    \/ (\E p \in ReadyPayloads : ReceiveP(p, TRUE)) /\ Free
    \/ Decoded /\ Free
    \/ Closing /\ Free
    \/ Closed /\ Free
    \/ EnsureConnected /\ Free
    \/ Timeout /\ Free
    \/ EnsureReady /\ UNCHANGED <<step, trace>>
    \/ Resume /\ UNCHANGED <<step, trace>>

\* what the event loop guarantees: a continuation whose promise is
\* resolved runs, the read of a Blob finishes, a timer that is set fires
SpecReady ==
    /\ Init /\ [][NextReady]_vars
    /\ WF_vars(Resume /\ UNCHANGED <<step, trace>>)
    /\ WF_vars(Decoded /\ Free)
    /\ WF_vars(Timeout /\ Free)

\* a server that sends the handshake twice on the first connection, each
\* as a string or as a Blob, while the caller may close the transport and
\* connect again; the handlers are the constructor's no-ops
Handshakes == <<Handshake, Handshake>>

NextHandshakes ==
    \/ Connect /\ Free
    \/ Open /\ Free
    \/ /\ step < Len(Handshakes)
       /\ ReceiveP(Handshakes[step + 1], FALSE)
       /\ last'.t = 1
       /\ step' = step + 1
       /\ Traced
       /\ UNCHANGED waiting
    \/ /\ DecodedP(FALSE)
       /\ step' = step
       /\ Traced
       /\ UNCHANGED waiting
    \/ Closing /\ Free
    \/ Closed /\ Free

SpecHandshakes == Init /\ [][NextHandshakes]_vars

\* ---------------------------------------------------------------- claims
SendOps == {"sendAudioChunk", "sendImage", "sendEndMessage", "sendTextMessage",
            "sendSetupMessage"}

Names(calls) == {calls[i].h : i \in DOMAIN calls}

\* C1: the readiness future of a connect attempt is resolved at most once,
\* and only by a step that dispatches a frame with a truthy ready field that
\* was received after the attempt began (transports are numbered in the
\* order of the attempts, and a frame arrives on the newest one, so that is
\* a frame of transport p or later); the open event never resolves it.
C1_ResolvedOnceByOwnReadyFrame ==
    /\ \A p \in DOMAIN promises : promises[p] <= 1
    /\ last.resolved # 0 =>
          /\ last.op = "dispatch"
          /\ last.frame.json /\ last.frame.ready
          /\ last.frame.t >= last.resolved

\* C2: connect() while the current transport is CONNECTING or OPEN creates
\* no transport and returns the future the connect() that created that
\* transport returned; at most one transport is CONNECTING or OPEN.
C2_ConnectIdempotent ==
    /\ (last.op = "connect" /\ last.pre \in {CONNECTING, OPEN}) =>
          /\ ~last.created
          /\ last.t = ws
          /\ last.ret = transports[ws].future
    /\ Cardinality({t \in DOMAIN transports :
                       transports[t].state \in {CONNECTING, OPEN}}) <= 1

\* a second connect() on the second transport, while it is open
C2_Witness ==
    /\ last.op = "connect" /\ last.pre = OPEN /\ ~last.created
    /\ Len(transports) = 2 /\ transports[1].state = CLOSED

\* C3: handler calls follow the frames' arrival order: no frame's handlers
\* are called after those of a frame that arrived later on its transport.
C3_ArrivalOrder == ~last.late

\* the handlers of each class of inbound frame
HandlersOf ==
    [c \in {"error", "ready", "interrupted", "audio", "text", "turn_complete",
            "function_call", "function_response", "unknown"} |->
        CASE c = "error" -> {"onError"}
          [] c = "ready" -> {"onReady", "onConnect"}
          [] c = "interrupted" -> {"onInterrupted"}
          [] c = "audio" -> {"onAudioData"}
          [] c = "text" -> {"onTextContent"}
          [] c = "turn_complete" -> {"onTurnComplete"}
          [] c = "function_call" -> {"onFunctionCall"}
          [] c = "function_response" -> {"onFunctionResponse"}
          [] c = "unknown" -> {}]

\* a JSON frame whose tag is none of the seven and that carries no ready
UnknownFrame(f) == f.json /\ ~f.ready /\ f.type \notin InboundTypes

Front(q) == SubSeq(q, 1, Len(q) - 1)

\* C4 as stated: every dispatched frame invokes the handlers of one class
\* only, and a frame with an unknown type invokes no handler and no error.
C4_OneClassPerFrame ==
    last.op = "dispatch" =>
        /\ \E c \in DOMAIN HandlersOf : Names(last.calls) \subseteq HandlersOf[c]
        /\ UnknownFrame(last.frame) => (last.calls = <<>> /\ ~last.threw)

\* C4, amended: every dispatched frame invokes the handlers of one class
\* only, unless one of them throws or the frame is not JSON: then the error
\* handler is invoked once more, with kind client_error, and nothing after
\* it; a frame with an unknown type invokes no handler and no error.
C4_OneClassUnlessThrown ==
    last.op = "dispatch" =>
        LET own == IF last.thrown = "none" THEN last.calls ELSE Front(last.calls) IN
        /\ \E c \in DOMAIN HandlersOf : Names(own) \subseteq HandlersOf[c]
        /\ last.thrown # "none" =>
              /\ last.calls[Len(last.calls)] = Call("onError", "client_error")
              /\ last.thrown = "parse" \/ own[Len(own)].h = last.thrown
        /\ UnknownFrame(last.frame) => (last.calls = <<>> /\ ~last.threw)

\* a frame tagged audio that also carries ready went to the ready handlers
C4_Witness ==
    /\ last.op = "dispatch"
    /\ last.frame.type = "audio" /\ last.frame.ready
    /\ last.calls = <<Call("onReady", "none"), Call("onConnect", "none")>>

\* C5: a send while the transport exists and is CONNECTING, CLOSING or
\* CLOSED transmits nothing and invokes the error handler exactly once, with
\* a message that names that state.
C5_SendWhileNotOpen ==
    (last.op \in SendOps /\ last.pre \in {CONNECTING, CLOSING, CLOSED}) =>
        /\ last.sent = <<>>
        /\ Len(last.calls) = 1
        /\ last.calls[1].h = "onError"
        /\ last.calls[1].arg = CASE last.pre = CONNECTING -> "CONNECTING"
                                 [] last.pre = CLOSING -> "CLOSING"
                                 [] last.pre = CLOSED -> "CLOSED"

C5_Witness ==
    /\ last.op = "sendEndMessage" /\ last.pre = CLOSING
    /\ last.calls = <<Call("onError", "CLOSING")>>

\* C6: right after an audio frame has been dispatched the speaking flag is
\* true.
C6_SpeakingAfterAudio ==
    (/\ last.op = "dispatch"
     /\ last.frame.json /\ ~last.frame.ready /\ last.frame.type = "audio") =>
        isSpeaking = TRUE

\* C7: right after an interrupted or a turn_complete frame has been
\* dispatched the speaking flag is false, whatever it was before.
C7_ClearedByInterruptedOrTurnComplete ==
    (/\ last.op = "dispatch"
     /\ last.frame.json /\ ~last.frame.ready
     /\ last.frame.type \in {"interrupted", "turn_complete"}) =>
        isSpeaking = FALSE

\* the first handler a JSON frame is dispatched to
FirstHandler(f) ==
    CASE f.type = "error" -> "onError"
      [] f.type # "error" /\ f.ready -> "onReady"
      [] OTHER -> CHOOSE h \in Handlers : h \in HandlersOf[f.type]

C8_OnlyClientError ==
    /\ (last.op = "dispatch" /\ ~last.frame.json) =>
          last.calls = <<Call("onError", "client_error")>>
    /\ (last.op = "dispatch" /\ last.frame.json /\ ~UnknownFrame(last.frame)) =>
          /\ last.calls # <<>>
          /\ last.calls[1].h = FirstHandler(last.frame)

C8_NothingChanged ==
    (last'.op = "dispatch" /\ ~last'.frame.json) =>
        UNCHANGED <<ws, readyPromise, resolveReady, promises, isSpeaking,
                    transports>>

\* C8: a frame that is not JSON invokes the error handler once, with kind
\* client_error, and no other handler; its dispatch changes neither the
\* transports' states nor the readiness future nor the speaking flag; and
\* every frame that is JSON, also one that follows it on the same
\* transport, is dispatched to the handler of its class.
C8_MalformedFrameDropped == []C8_OnlyClientError /\ [][C8_NothingChanged]_vars

\* a text envelope dispatched right after a frame that was not JSON, on the
\* same transport
C8_Witness ==
    /\ last.op = "dispatch" /\ last.afterBad
    /\ last.frame.json /\ last.frame.type = "text"
    /\ last.calls = <<Call("onTextContent", "hello")>>
    /\ transports[last.t].state = OPEN

\* C9: once the three frames of the script have been received and
\* dispatched, the handler calls were onReady, onConnect,
\* onTextContent(d), onTurnComplete, in this order and no others; and the
\* speaking flag is false in every state.
C9_ScenarioOrder ==
    /\ isSpeaking = FALSE
    /\ (step = Len(Script) /\ inflight = <<>>) =>
          trace = <<Call("onReady", "none"), Call("onConnect", "none"),
                    Call("onTextContent", "hello"), Call("onTurnComplete", "none")>>

\* C10: once the future of an ensureConnected() call has settled, none of
\* the call's listeners is registered on a transport.
C10_ListenersRemovedOnceSettled ==
    \A i \in DOMAIN ensure :
        ensure[i].settled # "pending" => (~ensure[i].onOpen /\ ~ensure[i].onError)

\* C11 as stated: the future of an ensureConnected() call made on a
\* transport that has not opened is pending until the timer fires and then
\* fails with the timeout error.
C11_TimeoutOnly ==
    \A i \in DOMAIN ensure :
        ~transports[ensure[i].t].wasOpen =>
            /\ ensure[i].settled \in {"pending", "timeout"}
            /\ ensure[i].settled = "timeout" => ~ensure[i].timer

\* while the transport has not opened the future is pending, or failed
\* with the timeout error, or failed with the transport's error; it is
\* settled only once the timer has fired or has been cleared
C11_PendingTimeoutOrError ==
    \A i \in DOMAIN ensure :
        /\ ~transports[ensure[i].t].wasOpen =>
              ensure[i].settled \in {"pending", "timeout", "error"}
        /\ ensure[i].settled # "pending" => ~ensure[i].timer

\* ensureConnected() on an open transport installs nothing and does not
\* fail; a firing timer fails a pending future with the timeout error; and
\* a pending future settles only in the step of its timer, of the
\* transport's open event or of the transport's error event
C11_Steps ==
    /\ (last'.op = "ensureConnected" /\ last'.pre = OPEN) =>
          /\ UNCHANGED ensure
          /\ ~last'.created /\ ~last'.threw
    /\ \A i \in DOMAIN ensure :
          /\ (last'.op = "timeout" /\ ensure[i].timer /\ ~ensure'[i].timer) =>
                (ensure[i].settled = "pending" /\ ensure'[i].settled = "timeout")
          /\ (ensure[i].settled = "pending" /\ ensure'[i].settled # "pending") =>
                \/ last'.op = "timeout" /\ ensure'[i].settled = "timeout"
                \/ /\ last'.op = "open" /\ last'.t = ensure[i].t
                   /\ ensure'[i].settled = "resolved"
                \/ /\ last'.op = "close" /\ last'.t = ensure[i].t /\ ~last'.clean
                   /\ ensure'[i].settled = "error"

\* C11, amended: ensureConnected() on an open transport completes at once
\* and installs neither listener nor timer; on a transport that is not open
\* and never opens its future stays pending until the 5-second timer fires
\* and then fails with the timeout error, unless the transport's error
\* event fires first: then it fails at that moment with that error.
C11_TimeoutOrTransportError == []C11_PendingTimeoutOrError /\ [][C11_Steps]_vars

\* the timer of a call made on a connecting transport has just fired
C11_Witness ==
    /\ last.op = "timeout"
    /\ \E i \in DOMAIN ensure :
          /\ ensure[i].settled = "timeout" /\ ~ensure[i].timer
          /\ ~transports[ensure[i].t].wasOpen

\* C12: ensureReady() creates a transport exactly when there is none or
\* the current one is CLOSING or CLOSED, and none when it is CONNECTING or
\* OPEN; and a call that has returned did so after the readiness future
\* that was current after its first step had been resolved, which only
\* the dispatch of a frame with a truthy ready field does.
C12_EnsureReadyConnectsWhenStale ==
    /\ last.op = "ensureReady" =>
          /\ last.created <=> last.pre \in {4, CLOSING, CLOSED}
          /\ last.pre \in {CONNECTING, OPEN} =>
                (last.t = ws /\ last.ret = transports[ws].future)
          /\ waiting[Len(waiting)].first = readyPromise
    /\ \A i \in DOMAIN waiting :
          waiting[i].pc = "done" =>
              /\ waiting[i].first # NULL
              /\ promises[waiting[i].first] = 1
    /\ last.resolved # 0 =>
          (last.op = "dispatch" /\ last.frame.json /\ last.frame.ready)

\* an ensureReady() on a closed transport has connected again, waited for
\* the new transport's handshake and returned
C12_Witness ==
    /\ Len(transports) = 2 /\ transports[1].state = CLOSED
    /\ \E i \in DOMAIN waiting :
          /\ waiting[i].pc = "done"
          /\ waiting[i].first = transports[2].future
          /\ promises[waiting[i].first] = 1

\* ensureReady() call i is suspended on the readiness future of a
\* transport whose close event has been delivered
ReadySuspended(i) ==
    /\ i \in DOMAIN waiting
    /\ waiting[i].pc # "done"
    /\ \E t \in DOMAIN transports :
          transports[t].future = waiting[i].p /\ transports[t].state = CLOSED

\* ensureConnected() call i is pending on a transport whose close event
\* has been delivered
EnsureSuspended(i) ==
    /\ i \in DOMAIN ensure
    /\ ensure[i].settled = "pending"
    /\ transports[ensure[i].t].state = CLOSED

\* C13: a caller suspended on the readiness future of a transport, or on
\* ensureConnected() for it, is eventually resumed once the transport's
\* close event has been delivered.
C13_CloseResumesWaiters ==
    /\ \A i \in 1..MaxReady : ReadySuspended(i) ~> ~ReadySuspended(i)
    /\ \A i \in 1..MaxEnsure : EnsureSuspended(i) ~> ~EnsureSuspended(i)

\* the step delivers an event of a transport that connect() has replaced
SupersededEvent ==
    /\ last'.op \in {"dispatch", "open", "close"}
    /\ last'.t # NULL /\ ws' # NULL /\ last'.t < ws'

\* C14: no event delivered on a superseded transport (a frame, its open,
\* error or close event) resolves a readiness future or changes the
\* readiness fields or the speaking flag of the manager, which by then
\* belong to the new connection.
C14_NoStateSharedAcrossConnections ==
    [][SupersededEvent =>
          /\ last'.resolved = 0
          /\ UNCHANGED <<readyPromise, resolveReady, promises, isSpeaking>>]_vars

\* C15: connect, ensureReady and the typed sends (each through
\* sendMessage) never throw, in any state, also before the first
\* connect(); a step in which a caller's handler was invoked (and may have
\* thrown itself) is not counted.
C15_OnlyEnsureConnectedFails ==
    (last.op \in SendOps \cup {"connect", "ensureReady"} /\ last.calls = <<>>) =>
        ~last.threw

\* the calls of the error handler with kind connection_closed
ClosedReports(calls) ==
    {i \in DOMAIN calls : calls[i] = Call("onError", "connection_closed")}

\* a close event reports connection_closed once if the closure was unclean
\* and not at all if it was clean; a clean closure invokes no handler
C16_ReportedIffUnclean ==
    last.op = "close" =>
        /\ Cardinality(ClosedReports(last.calls)) = IF last.clean THEN 0 ELSE 1
        /\ last.clean => last.calls = <<>>
        /\ \A i \in DOMAIN last.calls : last.calls[i].h = "onError"

\* a close event creates no transport and leaves this.ws and the
\* readiness future as they are
C16_NoReconnect ==
    last'.op = "close" =>
        /\ Len(transports') = Len(transports)
        /\ UNCHANGED <<ws, readyPromise, resolveReady, promises>>

\* C16: on a close event the error handler is invoked with kind
\* connection_closed if and only if the closure was unclean, a clean
\* closure invokes no handler, and in both cases no transport is created
\* and the readiness future is left untouched.
C16_CloseReportsUncleanOnly == []C16_ReportedIffUnclean /\ [][C16_NoReconnect]_vars

\* the current transport, once open, has closed cleanly and in silence
C16_Witness ==
    /\ last.op = "close" /\ last.clean /\ last.calls = <<>>
    /\ last.t = ws /\ transports[ws].state = CLOSED
    /\ resolveReady = readyPromise

\* C17: a frame tagged error is dispatched to the error handler only, with
\* its data, also when it carries a truthy ready field: neither onReady
\* nor onConnect is invoked and no readiness future is resolved.
C17_ErrorBeforeReady ==
    (last.op = "dispatch" /\ last.frame.json /\ last.frame.type = "error") =>
        /\ last.calls # <<>>
        /\ last.calls[1] = Call("onError", last.frame.data)
        /\ Names(last.calls) = {"onError"}
        /\ last.resolved = 0

\* an error frame that carries ready was dispatched while the readiness
\* future was pending, and the future is still pending
C17_Witness ==
    /\ last.op = "dispatch" /\ last.frame.type = "error" /\ last.frame.ready
    /\ last.calls = <<Call("onError", "hello")>>
    /\ resolveReady # NULL /\ resolveReady = readyPromise
    /\ promises[readyPromise] = 0

\* C18: the dispatch of a second or later frame with a truthy ready field
\* of a connection (trace holds the calls of the earlier one) invokes
\* onReady and then onConnect, raises no error, resolves no readiness
\* future and leaves the readiness fields and the transports as they are.
C18_LaterReadyIsNoOp ==
    [][(/\ last'.op = "dispatch" /\ last'.frame.ready
        /\ "onReady" \in Names(trace)) =>
          /\ last'.calls = <<Call("onReady", "none"), Call("onConnect", "none")>>
          /\ ~last'.threw
          /\ last'.resolved = 0
          /\ UNCHANGED <<readyPromise, resolveReady, promises, transports>>]_vars

\* the tag of the envelope each typed send builds
TagOf ==
    [op \in SendOps |->
        CASE op = "sendAudioChunk" -> "audio"
          [] op = "sendImage" -> "image"
          [] op = "sendEndMessage" -> "end"
          [] op = "sendTextMessage" -> "text"
          [] op = "sendSetupMessage" -> "setup"]

\* C19: a typed send while the transport is open transmits exactly one
\* envelope, with the tag of the operation and its argument as data (the
\* end envelope without data), and invokes no handler, whether or not a
\* ready frame has been observed on the connection.
C19_SendGatedOnTransportOnly ==
    (last.op \in SendOps /\ last.pre = OPEN) =>
        /\ last.sent = <<[type |-> TagOf[last.op],
                          data |-> IF last.op = "sendEndMessage" THEN "absent"
                                   ELSE "hello"]>>
        /\ last.calls = <<>>
        /\ ~last.threw

\* a setup envelope sent on an open transport before any ready frame
C19_Witness ==
    /\ last.op = "sendSetupMessage" /\ last.pre = OPEN
    /\ last.sent = <<[type |-> "setup", data |-> "hello"]>>
    /\ resolveReady # NULL /\ promises[transports[ws].future] = 0

\* C20: when a handler other than onError throws during the dispatch of a
\* frame that is JSON, no exception leaves the message handler, the error
\* handler is invoked once, with kind client_error, right after the
\* handler that threw, and nothing after it; a throw from onReady leaves
\* onConnect uninvoked and no readiness future resolved.
C20_HandlerThrowIsCaught ==
    (/\ last.op = "dispatch" /\ last.frame.json
     /\ last.thrown \notin {"none", "parse", "onError"}) =>
        LET n == Len(last.calls) IN
        /\ ~last.threw
        /\ n >= 2
        /\ last.calls[n] = Call("onError", "client_error")
        /\ last.calls[n - 1].h = last.thrown
        /\ \A i \in 1..(n - 1) : last.calls[i] # Call("onError", "client_error")
        /\ last.thrown = "onReady" =>
              /\ last.calls = <<Call("onReady", "none"),
                                Call("onError", "client_error")>>
              /\ last.resolved = 0

\* onReady threw while the readiness future was pending: the future is
\* still pending
C20_Witness ==
    /\ last.op = "dispatch" /\ last.frame.json /\ last.thrown = "onReady"
    /\ last.calls = <<Call("onReady", "none"), Call("onError", "client_error")>>
    /\ resolveReady # NULL /\ promises[resolveReady] = 0
====
